---- MODULE Spec2Model ----
(***************************************************************************)
(* Model of mongodb_time_series_manager.py: the MongoDB class, a set of    *)
(* pass-through methods over one database of a document server.            *)
(*                                                                         *)
(* State: the database (its collections and their documents), the          *)
(* collection handles the caller has been given, the cursor the caller     *)
(* got from its latest query and has not read yet, and the record of the   *)
(* last call (arguments, driver calls issued, what it returned, printed    *)
(* or raised).                                                              *)
(*                                                                         *)
(* The two query methods only build a cursor: the find command is sent,    *)
(* and can fail, when the caller iterates the cursor, and any other call   *)
(* can come in between.                                                    *)
(*                                                                         *)
(* Timestamps are instants at the resolution the server stores.  A tag     *)
(* name is the sequence of its "."-separated segments, so that the string  *)
(* concatenation 'tags.' + tag_name and the server's reading of the        *)
(* resulting key as a dotted path are both modelled.                       *)
(* A value is None, a scalar or a mapping; arrays are left out.  Spec is    *)
(* every method under every caller; SpecDedup is the caller that fills     *)
(* collections, with tags present, None and absent, and removes            *)
(* duplicates.                                                             *)
(***************************************************************************)
EXTENDS Integers, Sequences, FiniteSets, Bags, TLC

VARIABLES db, handles, cursor, last

vars == <<db, handles, cursor, last>>

\* Bounds of the model: documents stored in the whole database, under Spec
\* and under SpecDedup.
MaxDocs == 2
MaxHeld == 3

(***************************************************************************)
(* Inputs                                                                  *)
(***************************************************************************)
\* The collections of the database: the one the caller asks for, and the one
\* named by the literal of the except branch.
Names == {"myt3", "collection_name"}
Requested == {"myt3"}
TimeFields == {"timestamp"}
MetaFields == {"tags"}
Times == {0, 1, 2}

\* The (start_time, end_time) pairs queried.
Ranges == {<<0, 0>>, <<0, 2>>, <<2, 1>>}

\* The (tag_name, tag_value) pairs queried, a tag name being the segments
\* between its dots: "bounding_box_count", "bounding_box_count.max".
TagQueries == {<<<<"bounding_box_count">>, 1>>, <<<<"bounding_box_count", "max">>, 1>>}

\* A mapping without entries.
NoTags == [k \in {} |-> 0]

\* A value of a document: None, a scalar, or a mapping from keys to values.
Null == [kind |-> "null", v |-> 0, map |-> NoTags]
Scalar(v) == [kind |-> "scalar", v |-> v, map |-> NoTags]
Mapping(entries) == [kind |-> "mapping", v |-> 0, map |-> entries]
Nested(k, v) == Mapping(k :> Scalar(v))

CountOne == (<<"bounding_box_count">> :> Scalar(1))
CountTwo == (<<"bounding_box_count">> :> Scalar(2))
CountMaxNested == (<<"bounding_box_count">> :> Nested(<<"max">>, 1))
CountNull == (<<"bounding_box_count">> :> Null)

\* The (timestamp, value, tags) triples inserted.
Samples ==
  { <<0, 12345, CountOne>>, <<2, 67890, CountTwo>>, <<1, 12345, CountMaxNested>> }

\* The triples inserted before duplicates are removed: a tag held twice,
\* once, as None, and not at all.
DedupSamples ==
  { <<0, 12345, CountOne>>, <<2, 67890, CountTwo>>, <<1, 12345, CountNull>>,
    <<1, 67890, NoTags>> }

\* Fields remove_duplicates is asked to check, as dotted paths.
Fields == {<<"value">>, <<"tags">>, <<"tags", "bounding_box_count">>}

\* Errors of the driver other than CollectionInvalid: the server cannot be
\* reached, the server rejects the command.
Faults == {"ServerSelectionTimeoutError", "OperationFailure"}

(***************************************************************************)
(* The database                                                            *)
(***************************************************************************)
NoOptions == [timeField |-> "", metaField |-> ""]
Absent == [exists |-> FALSE, options |-> NoOptions, docs |-> EmptyBag]

TotalDocs == BagCardinality(db["myt3"].docs) + BagCardinality(db["collection_name"].docs)

\* The documents of a bag that are in kept, as many times as they are stored.
Select(docs, kept) == [d \in kept \cap DOMAIN docs |-> docs[d]]

\* The values a dotted path reaches from a value: the value itself at the end
\* of the path, the entry of a mapping under the next segment, nothing below
\* a scalar or under a key the mapping lacks.
RECURSIVE Descend(_, _)
Descend(value, path) ==
  IF path = <<>> THEN {value}
  ELSE IF value.kind # "mapping" \/ <<Head(path)>> \notin DOMAIN value.map THEN {}
  ELSE Descend(value.map[<<Head(path)>>], Tail(path))

\* The values a dotted path reaches in a document (none when it is missing).
Resolve(document, path) ==
  IF path = <<>> THEN {}
  ELSE IF Head(path) = "timestamp" THEN Descend(Scalar(document.timestamp), Tail(path))
  ELSE IF Head(path) = "value" THEN Descend(Scalar(document.value), Tail(path))
  ELSE IF Head(path) = "tags" THEN Descend(Mapping(document.tags), Tail(path))
  ELSE {}

\* The equality filter {path: value} of the server: the path reaches the
\* value; a filter on None also matches a document the path reaches nothing in.
Matches(document, path, value) ==
  \/ value \in Resolve(document, path)
  \/ value = Null /\ Resolve(document, path) = {}

\* A document as read back under a handle's codec options.
Decode(document, tz_aware) ==
  [timestamp |-> document.timestamp,
   tzinfo |-> IF tz_aware THEN "UTC" ELSE "naive",
   value |-> document.value,
   tags |-> document.tags]

Stored(decoded) ==
  [timestamp |-> decoded.timestamp, value |-> decoded.value, tags |-> decoded.tags]

\* The documents a cursor yields through a handle.
Read(docs, tz_aware) ==
  [r \in {Decode(d, tz_aware) : d \in DOMAIN docs} |-> docs[Stored(r)]]

(***************************************************************************)
(* Record of the last call                                                 *)
(***************************************************************************)
\* A handle, and the cursor of a query on it; no cursor is open at first.
NoHandle == [name |-> "", tz_aware |-> FALSE]
NoCursor ==
  [query |-> "none", collection |-> NoHandle, start_time |-> 0, end_time |-> 0,
   tag_name |-> <<>>, tag_value |-> 0]

Call(op, name) ==
  [op |-> op, name |-> name, tz_aware |-> FALSE, query |-> "none",
   time_field |-> "", meta_field |-> "",
   timestamp |-> 0, end_time |-> 0, value |-> 0, tags |-> NoTags,
   tag_name |-> <<>>, tag_value |-> 0, field |-> <<>>,
   driver_error |-> "none", calls |-> 0, failed_call |-> 0,
   outcome |-> "returned", error |-> "none",
   handle |-> NoHandle,
   result |-> EmptyBag, deleted_count |-> 0, printed |-> <<>>]

\* The record of a call that ended in an exception: which call it was, the
\* driver calls it issued and the exception that reached the caller.
Raised(call, error) ==
  [Call(call.op, "") EXCEPT
     !.driver_error = call.driver_error, !.calls = call.calls,
     !.failed_call = call.failed_call, !.outcome = "raised", !.error = error]

Init ==
  /\ db = [n \in Names |-> Absent]
  /\ handles = {}
  /\ cursor = NoCursor
  /\ last = Call("init", "")

(***************************************************************************)
(* create_timeseries_collection                                            *)
(***************************************************************************)
\* (Variant for C3: a create_collection that never refuses a name.)
NeverExists(collection_name) == FALSE

\* Database.create_collection refuses a name that is already in use.
AlreadyExists(collection_name) == db[collection_name].exists

\* What the driver's create_collection raises ("none": it succeeds).
CreateRaises(collection_name, fault) ==
  IF fault # "none" THEN fault
  ELSE IF AlreadyExists(collection_name) THEN "CollectionInvalid"
  ELSE "none"

\* (Variant for C8: except Exception.)
CaughtAny(error) == TRUE

\* except errors.CollectionInvalid
Caught(error) == error = "CollectionInvalid"

\* The handle of the try branch: create_collection(...).with_options(codec_options).
CreatedHandle(collection_name) == [name |-> collection_name, tz_aware |-> TRUE]

\* The handle of the except branch: self.db['collection_name'], with the
\* client's default codec options.
ExistingHandle(collection_name) == [name |-> "collection_name", tz_aware |-> FALSE]

create_timeseries_collection(collection_name, time_field, meta_field, fault) ==
  LET raised == CreateRaises(collection_name, fault)
      call == [Call("create_timeseries_collection", collection_name) EXCEPT
                 !.time_field = time_field, !.meta_field = meta_field,
                 !.driver_error = raised, !.calls = 1,
                 !.failed_call = IF raised = "none" THEN 0 ELSE 1]
  IN IF raised = "none"
     THEN /\ db' = [db EXCEPT ![collection_name] =
                      [exists |-> TRUE,
                       options |-> [timeField |-> time_field, metaField |-> meta_field],
                       docs |-> EmptyBag]]
          /\ cursor' = cursor
          /\ handles' = handles \cup {CreatedHandle(collection_name)}
          /\ last' = [call EXCEPT !.handle = CreatedHandle(collection_name),
                                  !.tz_aware = TRUE]
     ELSE IF Caught(raised)
     THEN /\ db' = db
          /\ cursor' = cursor
          /\ handles' = handles \cup {ExistingHandle(collection_name)}
          /\ last' = [call EXCEPT !.handle = ExistingHandle(collection_name),
                                  !.tz_aware = ExistingHandle(collection_name).tz_aware]
     ELSE /\ db' = db
          /\ cursor' = cursor
          /\ handles' = handles
          /\ last' = Raised(call, raised)

(***************************************************************************)
(* insert_timeseries_document                                              *)
(***************************************************************************)
\* (Variant for C10: 'value' filled from the timestamp.)
SwappedDocument(timestamp, value, tags) ==
  [timestamp |-> timestamp, value |-> timestamp, tags |-> tags]

\* document = {'timestamp': timestamp, 'value': value, 'tags': tags}
Document(timestamp, value, tags) ==
  [timestamp |-> timestamp, value |-> value, tags |-> tags]

\* (Variant for C9: an insert that skips a document already stored.)
insert_unless_present(docs, document) ==
  IF BagIn(document, docs) THEN docs ELSE docs (+) SetToBag({document})

\* Collection.insert_one: one more document; a collection that does not
\* exist yet is created by its first insert, as a plain collection.
insert_one(docs, document) == docs (+) SetToBag({document})

insert_timeseries_document(collection, timestamp, value, tags, fault) ==
  LET document == Document(timestamp, value, tags)
      raised == fault
      call == [Call("insert_timeseries_document", collection.name) EXCEPT
                 !.tz_aware = collection.tz_aware,
                 !.timestamp = timestamp, !.value = value, !.tags = tags,
                 !.driver_error = raised, !.calls = 1,
                 !.failed_call = IF raised = "none" THEN 0 ELSE 1]
  IN /\ UNCHANGED <<handles, cursor>>
     /\ IF raised = "none"
        THEN /\ db' = [db EXCEPT ![collection.name] =
                         [exists |-> TRUE, options |-> @.options,
                          docs |-> insert_one(@.docs, document)]]
             /\ last' = call
        ELSE /\ db' = db
             /\ last' = Raised(call, raised)

\* The documents a handle reaches: those of the collection it names (none
\* while that collection does not exist).
DocsOf(collection) == db[collection.name].docs

\* A call on a handle that reads or deletes: one driver call, which raises
\* fault or succeeds.
HandleCall(op, collection, fault) ==
  [Call(op, collection.name) EXCEPT
     !.tz_aware = collection.tz_aware,
     !.driver_error = fault, !.calls = 1,
     !.failed_call = IF fault = "none" THEN 0 ELSE 1]

(***************************************************************************)
(* print_collection_data                                                   *)
(***************************************************************************)
\* collection.find(): every document.
find_all(docs) == docs

print_collection_data(collection, fault) ==
  LET call == HandleCall("print_collection_data", collection, fault)
  IN /\ UNCHANGED <<db, handles, cursor>>
     /\ last' = IF fault # "none" THEN Raised(call, fault)
                ELSE [call EXCEPT
                        !.result = Read(find_all(DocsOf(collection)), collection.tz_aware)]

(***************************************************************************)
(* delete_document_by_timestamp                                            *)
(***************************************************************************)
\* query = {'timestamp': timestamp}
TimestampIs(document, timestamp) ==
  Matches(document, <<"timestamp">>, Scalar(timestamp))

\* (Variant for C5: delete_many in place of delete_one.)
delete_every(docs, matching, victim) == Select(docs, DOMAIN docs \ matching)

\* collection.delete_one(query): the server removes one matching document,
\* victim, when there is any.
delete_one(docs, matching, victim) ==
  IF matching = {} THEN docs ELSE docs (-) SetToBag({victim})

delete_document_by_timestamp(collection, timestamp, victim, fault) ==
  LET docs == DocsOf(collection)
      matching == {d \in DOMAIN docs : TimestampIs(d, timestamp)}
      call == [HandleCall("delete_document_by_timestamp", collection, fault) EXCEPT
                 !.timestamp = timestamp]
  IN /\ fault = "none" /\ matching # {} => victim \in matching
     /\ fault # "none" \/ matching = {} => victim = Document(0, 0, NoTags)
     /\ UNCHANGED <<handles, cursor>>
     /\ IF fault # "none"
        THEN /\ db' = db
             /\ last' = Raised(call, fault)
        ELSE /\ db' = [db EXCEPT ![collection.name].docs = delete_one(docs, matching, victim)]
             /\ last' = [call EXCEPT
                           !.deleted_count = IF matching = {} THEN 0 ELSE 1]

(***************************************************************************)
(* get_documents_by_timestamp                                              *)
(***************************************************************************)
\* (Variant for C6: $gt and $lt in place of $gte and $lte.)
Between(timestamp, start_time, end_time) ==
  start_time < timestamp /\ timestamp < end_time

\* query = {'timestamp': {'$gte': start_time, '$lte': end_time}}
InRange(timestamp, start_time, end_time) ==
  start_time <= timestamp /\ timestamp <= end_time

\* In the range of a query on timestamps.
TimestampInRange(document, start_time, end_time) ==
  \E t \in Resolve(document, <<"timestamp">>) : InRange(t.v, start_time, end_time)

\* return collection.find(query): a cursor, built without any driver call.
get_documents_by_timestamp(collection, start_time, end_time) ==
  /\ UNCHANGED <<db, handles>>
  /\ cursor' = [NoCursor EXCEPT !.query = "get_documents_by_timestamp",
                                !.collection = collection,
                                !.start_time = start_time, !.end_time = end_time]
  /\ last' = [Call("get_documents_by_timestamp", collection.name) EXCEPT
                !.tz_aware = collection.tz_aware,
                !.timestamp = start_time, !.end_time = end_time]

(***************************************************************************)
(* get_documents_by_tag                                                    *)
(***************************************************************************)
\* 'tags.' + tag_name, read by the server as a dotted path.
TagPath(tag_name) == <<"tags">> \o tag_name

\* query = {'tags.' + tag_name: tag_value}
TagMatches(document, tag_name, tag_value) ==
  Matches(document, TagPath(tag_name), Scalar(tag_value))

\* return collection.find(query): a cursor, built without any driver call.
get_documents_by_tag(collection, tag_name, tag_value) ==
  /\ UNCHANGED <<db, handles>>
  /\ cursor' = [NoCursor EXCEPT !.query = "get_documents_by_tag",
                                !.collection = collection,
                                !.tag_name = tag_name, !.tag_value = tag_value]
  /\ last' = [Call("get_documents_by_tag", collection.name) EXCEPT
                !.tz_aware = collection.tz_aware,
                !.tag_name = tag_name, !.tag_value = tag_value]

(***************************************************************************)
(* for document in <cursor>: the caller reads the cursor of a query        *)
(***************************************************************************)
\* The documents the query of a cursor matches when the find command runs.
Matching(docs, c) ==
  IF c.query = "get_documents_by_timestamp"
  THEN {d \in DOMAIN docs : TimestampInRange(d, c.start_time, c.end_time)}
  ELSE {d \in DOMAIN docs : TagMatches(d, c.tag_name, c.tag_value)}

\* The first step of the loop sends the find command: it raises fault, or
\* answers with the documents matching now.  Either way the cursor is spent.
for_document_in(fault) ==
  LET collection == cursor.collection
      docs == DocsOf(collection)
      call == [HandleCall("for_document_in", collection, fault) EXCEPT
                 !.query = cursor.query,
                 !.timestamp = cursor.start_time, !.end_time = cursor.end_time,
                 !.tag_name = cursor.tag_name, !.tag_value = cursor.tag_value]
  IN /\ cursor # NoCursor
     /\ UNCHANGED <<db, handles>>
     /\ cursor' = NoCursor
     /\ last' = IF fault # "none" THEN Raised(call, fault)
                ELSE [call EXCEPT
                        !.result = Read(Select(docs, Matching(docs, cursor)),
                                        collection.tz_aware)]

(***************************************************************************)
(* remove_duplicates                                                       *)
(***************************************************************************)
\* The lists of the members of S, each once, in any order.
Orders(S) ==
  {s \in [1 .. Cardinality(S) -> S] : \A v \in S : \E i \in DOMAIN s : s[i] = v}

\* collection.distinct(field_to_check): the values present, each once, in an
\* order the server chooses; the lists it can answer with.
distinct(docs, field) == Orders(UNION {Resolve(d, field) : d \in DOMAIN docs})

\* collection.delete_many({field_to_check: value}): what is left.
delete_many(docs, field, value) ==
  Select(docs, {d \in DOMAIN docs : ~Matches(d, field, value)})

\* The loop over unique_values: driver call number `call` deletes the next
\* value; the call numbered failing (if any) raises and ends the loop.
\* print(f"Deleted {result.deleted_count} documents with value {value}")
Report(value, deleted_count, rest) ==
  [rest EXCEPT
     !.printed = <<[value |-> value, deleted_count |-> deleted_count]>> \o @]

RECURSIVE DeleteLoop(_, _, _, _, _)
DeleteLoop(docs, unique_values, field, call, failing) ==
  IF unique_values = <<>>
  THEN [docs |-> docs, printed |-> <<>>, calls |-> call - 1, failed_call |-> 0]
  ELSE IF call = failing
  THEN [docs |-> docs, printed |-> <<>>, calls |-> call, failed_call |-> call]
  ELSE Report(Head(unique_values),
              BagCardinality(docs)
               - BagCardinality(delete_many(docs, field, Head(unique_values))),
             DeleteLoop(delete_many(docs, field, Head(unique_values)),
                        Tail(unique_values), field, call + 1, failing))

remove_duplicates(collection, field_to_check, unique_values, failing, fault) ==
  LET docs == DocsOf(collection)
      loop == IF failing = 1
              THEN [docs |-> docs, printed |-> <<>>, calls |-> 1, failed_call |-> 1]
              ELSE DeleteLoop(docs, unique_values, field_to_check, 2, failing)
      call == [Call("remove_duplicates", collection.name) EXCEPT
                 !.tz_aware = collection.tz_aware, !.field = field_to_check,
                 !.driver_error = IF loop.failed_call = 0 THEN "none" ELSE fault,
                 !.calls = loop.calls, !.failed_call = loop.failed_call,
                 !.printed = loop.printed]
  IN /\ (failing = 0) = (fault = "none")
     /\ IF failing = 1 THEN unique_values = <<>>
        ELSE unique_values \in distinct(docs, field_to_check)
     /\ failing <= 1 + Len(unique_values)
     /\ UNCHANGED <<handles, cursor>>
     /\ db' = [db EXCEPT ![collection.name].docs = loop.docs]
     /\ last' = IF loop.failed_call = 0 THEN call
                ELSE [Raised(call, fault) EXCEPT !.printed = loop.printed]

Next ==
  \/ \E n \in Requested, tf \in TimeFields, mf \in MetaFields, fault \in Faults \cup {"none"} :
       create_timeseries_collection(n, tf, mf, fault)
  \/ \E h \in handles, d \in Samples :
       TotalDocs < MaxDocs /\ insert_timeseries_document(h, d[1], d[2], d[3], "none")
  \/ \E h \in handles, fault \in Faults :
       insert_timeseries_document(h, 0, 12345, NoTags, fault)
  \/ \E h \in handles, fault \in Faults \cup {"none"} :
       print_collection_data(h, fault)
  \/ \E h \in handles, t \in Times :
       \E victim \in DOMAIN DocsOf(h) \cup {Document(0, 0, NoTags)} :
         delete_document_by_timestamp(h, t, victim, "none")
  \/ \E h \in handles, fault \in Faults :
       delete_document_by_timestamp(h, 0, Document(0, 0, NoTags), fault)
  \/ \E h \in handles, r \in Ranges :
       get_documents_by_timestamp(h, r[1], r[2])
  \/ \E h \in handles, q \in TagQueries :
       get_documents_by_tag(h, q[1], q[2])
  \/ \E fault \in Faults \cup {"none"} :
       for_document_in(fault)
  \/ \E h \in handles, f \in Fields :
       \E unique_values \in distinct(DocsOf(h), f) :
         remove_duplicates(h, f, unique_values, 0, "none")
  \/ \E h \in handles, fault \in Faults :
       remove_duplicates(h, <<"value">>, <<>>, 1, fault)
  \/ \E h \in handles, f \in Fields, failing \in 2 .. (MaxDocs + 1), fault \in Faults :
       \E unique_values \in distinct(DocsOf(h), f) :
         remove_duplicates(h, f, unique_values, failing, fault)

Spec == Init /\ [][Next]_vars

\* The caller that fills collections and removes duplicates from them.
NextDedup ==
  \/ \E n \in Requested, tf \in TimeFields, mf \in MetaFields :
       create_timeseries_collection(n, tf, mf, "none")
  \/ \E h \in handles, d \in DedupSamples :
       TotalDocs < MaxHeld /\ insert_timeseries_document(h, d[1], d[2], d[3], "none")
  \/ \E h \in handles, f \in Fields :
       \E unique_values \in distinct(DocsOf(h), f) :
         remove_duplicates(h, f, unique_values, 0, "none")

SpecDedup == Init /\ [][NextDedup]_vars

(***************************************************************************)
(* Properties                                                              *)
(***************************************************************************)
Returned(call, op) == call.op = op /\ call.outcome = "returned"

\* The document a call record's arguments describe.
Inserted(call) == [timestamp |-> call.timestamp, value |-> call.value, tags |-> call.tags]

\* The collections other than name are as they were.
OthersUnchanged(name) == \A n \in Names \ {name} : db'[n] = db[n]

\* C1: when create_timeseries_collection(N, ...) finds that N already exists,
\* it returns a handle bound to the collection named N.
C1_ExistingHandleBindsRequestedName ==
  Returned(last, "create_timeseries_collection") /\ last.driver_error = "CollectionInvalid"
    => last.handle.name = last.name

\* C2: every handle create_timeseries_collection returns, on the created and
\* on the already-existing path, decodes timestamps time-zone aware.
C2_EveryReturnedHandleTzAware ==
  Returned(last, "create_timeseries_collection") => last.handle.tz_aware

\* A step of create_timeseries_collection on a name in use.
C3_CreateExistingStep ==
  (last'.op = "create_timeseries_collection"
     /\ \E n \in Names : db[n].exists /\ last'.name = n)
  => /\ last'.driver_error = "CollectionInvalid"
     /\ last'.outcome = "returned"
     /\ last'.handle \in handles'
     /\ db' = db

\* C3: a call of create_timeseries_collection with the name of an existing
\* collection returns a handle without raising (the driver reporting nothing
\* but that the collection exists), and leaves every collection's documents
\* and options as they were.
C3_CreateIsIdempotent == [][C3_CreateExistingStep]_vars

C3_Witness ==
  /\ Returned(last, "create_timeseries_collection")
  /\ last.driver_error = "CollectionInvalid"
  /\ last.name = "myt3"
  /\ BagCardinality(db["myt3"].docs) = 2

\* The values of field present in docs, and the documents holding value.
Present(docs, field) == UNION {Resolve(d, field) : d \in DOMAIN docs}
Holding(docs, field, value) ==
  BagCardinality([d \in {x \in DOMAIN docs : value \in Resolve(x, field)} |-> docs[d]])

\* A step of remove_duplicates that returns.
C4_RemoveDuplicatesStep ==
  Returned(last', "remove_duplicates") =>
    LET before == db[last'.name].docs
        after == db'[last'.name].docs
        field == last'.field
        printed == last'.printed
    IN /\ \A d \in DOMAIN after : Resolve(d, field) \cap Present(before, field) = {}
       /\ {printed[i].value : i \in DOMAIN printed} = Present(before, field)
       /\ Len(printed) = Cardinality(Present(before, field))
       /\ \A i \in DOMAIN printed :
            printed[i].deleted_count = Holding(before, field, printed[i].value)

\* C4: a remove_duplicates(collection, field) that runs to completion, from
\* any state of the collection, leaves no document holding a value of field
\* that was present when it started, whether the value occurred once or
\* several times, and reports for each distinct value, once, the number of
\* documents that held it.
C4_RemoveDuplicatesDeletesEveryValue == [][C4_RemoveDuplicatesStep]_vars

\* The documents of docs whose timestamp is exactly timestamp.
AtTimestamp(docs, timestamp) ==
  BagCardinality([d \in {x \in DOMAIN docs : x.timestamp = timestamp} |-> docs[d]])

\* A step of delete_document_by_timestamp that returns.
C5_DeleteByTimestampStep ==
  Returned(last', "delete_document_by_timestamp") =>
    LET before == db[last'.name].docs
        after == db'[last'.name].docs
        T == last'.timestamp
        k == AtTimestamp(before, T)
    IN /\ k >= 1 => AtTimestamp(after, T) = k - 1 /\ last'.deleted_count = 1
       /\ k = 0 => after = before /\ last'.deleted_count = 0
       /\ BagCardinality(after) = BagCardinality(before) - last'.deleted_count
       /\ \A d \in DOMAIN before \cup DOMAIN after :
            d.timestamp # T => CopiesIn(d, after) = CopiesIn(d, before)
       /\ OthersUnchanged(last'.name)

\* C5: delete_document_by_timestamp(collection, T) removes one of the k >= 1
\* documents whose timestamp is T, leaving k - 1, and reports 1; removes
\* nothing and reports 0 when there is none; and leaves every document with
\* another timestamp as it was.
C5_DeleteRemovesAtMostOne == [][C5_DeleteByTimestampStep]_vars

\* One document was removed and another with the same timestamp remains.
C5_Witness ==
  /\ Returned(last, "delete_document_by_timestamp")
  /\ last.deleted_count = 1
  /\ AtTimestamp(db[last.name].docs, last.timestamp) = 1

\* The caller has read the cursor of a query of the given method.
ReadOf(call, query) == Returned(call, "for_document_in") /\ call.query = query

\* C6: the cursor of get_documents_by_timestamp(collection, start, end)
\* yields, when it is read, exactly the documents the collection then holds
\* with start <= timestamp <= end, as many times as they are stored; over
\* [T, T], with one document stored at T, it yields that document alone.
C6_RangeQueryIsInclusive ==
  ReadOf(last, "get_documents_by_timestamp") =>
    LET docs == db[last.name].docs
        start == last.timestamp
        end == last.end_time
    IN /\ \A r \in DOMAIN last.result :
            /\ Stored(r) \in DOMAIN docs
            /\ start <= r.timestamp /\ r.timestamp <= end
            /\ CopiesIn(r, last.result) = CopiesIn(Stored(r), docs)
       /\ \A d \in DOMAIN docs :
            start <= d.timestamp /\ d.timestamp <= end
              => \E r \in DOMAIN last.result : Stored(r) = d
       /\ start = end /\ AtTimestamp(docs, start) = 1
            => /\ BagCardinality(last.result) = 1
               /\ \A r \in DOMAIN last.result : r.timestamp = start

\* A query over [T, T] yielded the one document at T of a collection that
\* holds another document too.
C6_Witness ==
  /\ ReadOf(last, "get_documents_by_timestamp")
  /\ last.timestamp = last.end_time
  /\ BagCardinality(last.result) = 1
  /\ BagCardinality(db[last.name].docs) = 2

\* The documents whose tags mapping has the top-level entry tag_name, equal to
\* tag_value.
HasTag(document, tag_name, tag_value) ==
  tag_name \in DOMAIN document.tags /\ document.tags[tag_name] = Scalar(tag_value)

\* C7: the cursor of get_documents_by_tag(collection, tagName, tagValue)
\* yields exactly the documents whose tags mapping has the top-level entry
\* tagName equal to tagValue, for every tagName, and none through a nested
\* path.
C7_TagQueryMatchesTopLevelEntry ==
  ReadOf(last, "get_documents_by_tag") =>
    LET docs == db[last.name].docs
    IN /\ \A r \in DOMAIN last.result :
            /\ Stored(r) \in DOMAIN docs
            /\ HasTag(Stored(r), last.tag_name, last.tag_value)
            /\ CopiesIn(r, last.result) = CopiesIn(Stored(r), docs)
       /\ \A d \in DOMAIN docs :
            HasTag(d, last.tag_name, last.tag_value)
              => \E r \in DOMAIN last.result : Stored(r) = d

\* C8: a driver call that raises anything but the CollectionInvalid caught in
\* create_timeseries_collection ends the call: no further driver call is
\* issued and the same error reaches the caller; a call returns normally only
\* if no driver call of it failed, that one catch apart.  (The find of a
\* query is issued, and fails, in the caller's loop over the cursor.)
C8_DriverErrorsPropagate ==
  LET caught == /\ last.op = "create_timeseries_collection"
                /\ last.driver_error = "CollectionInvalid"
  IN /\ last.driver_error # "none" /\ ~caught
        => /\ last.outcome = "raised"
           /\ last.error = last.driver_error
           /\ last.failed_call >= 1
           /\ last.calls = last.failed_call
     /\ last.outcome = "returned" => last.driver_error = "none" \/ caught
     /\ last.outcome = "raised" => last.error = last.driver_error /\ last.error # "none"

\* remove_duplicates raised from a delete_many after an earlier one succeeded.
C8_Witness ==
  /\ last.op = "remove_duplicates"
  /\ last.outcome = "raised"
  /\ last.failed_call = 3
  /\ Len(last.printed) = 1

\* A step of insert_timeseries_document that returns.
C9_InsertStep ==
  Returned(last', "insert_timeseries_document") =>
    LET before == db[last'.name].docs
        after == db'[last'.name].docs
    IN /\ BagCardinality(after) = BagCardinality(before) + 1
       /\ CopiesIn(Inserted(last'), after) = CopiesIn(Inserted(last'), before) + 1
       /\ \A d \in DOMAIN before \cup DOMAIN after :
            d # Inserted(last') => CopiesIn(d, after) = CopiesIn(d, before)
       /\ OthersUnchanged(last'.name)

\* C9: a successful insert_timeseries_document adds one document
\* {timestamp, value, tags} to the target collection, also when an equal
\* document is already stored, and leaves the others as they were.
C9_InsertAddsExactlyOne == [][C9_InsertStep]_vars

\* The same (timestamp, value, tags) was inserted twice and is stored twice.
C9_Witness ==
  /\ Returned(last, "insert_timeseries_document")
  /\ CopiesIn(Inserted(last), db[last.name].docs) = 2

ReadOps ==
  {"print_collection_data", "get_documents_by_timestamp", "get_documents_by_tag",
   "for_document_in"}
DeleteOps == {"delete_document_by_timestamp", "remove_duplicates"}

\* What any step does to the stored documents.
C10_LifecycleStep ==
  /\ last'.op \in ReadOps => db' = db
  /\ \A n \in Names : db'[n].docs = db[n].docs \/
     \A d \in DOMAIN db[n].docs \cup DOMAIN db'[n].docs :
       /\ CopiesIn(d, db'[n].docs) > CopiesIn(d, db[n].docs)
            => /\ Returned(last', "insert_timeseries_document")
               /\ last'.name = n
               /\ d = Inserted(last')
               /\ CopiesIn(d, db'[n].docs) = CopiesIn(d, db[n].docs) + 1
       /\ CopiesIn(d, db'[n].docs) < CopiesIn(d, db[n].docs)
            => last'.op \in DeleteOps

\* C10: the reads leave every collection as it was; a document appears in a
\* collection only by an insert_timeseries_document into it, and is the
\* document that call was given; a document disappears only by
\* delete_document_by_timestamp or remove_duplicates.
C10_DocumentLifecycle == [][C10_LifecycleStep]_vars

\* A read returned the stored documents of a collection that holds some.
C10_Witness ==
  /\ Returned(last, "print_collection_data")
  /\ BagCardinality(last.result) = 2
  /\ BagCardinality(db[last.name].docs) = 2

====
